---- MODULE Spec2Model ----
(***************************************************************************)
(* Argos, a concurrent TCP connect scanner (src/argos.go).                 *)
(*                                                                         *)
(* The module models                                                       *)
(*   - parsePortRange, the Port Set Resolver, on character sequences;      *)
(*   - scanPort, the Probe, as a function of what the network answered;    *)
(*   - main: the resolution of the host, the parse of the port range, the  *)
(*     default range, the submission loop under the semaphore, the         *)
(*     collector goroutine, the join, the sort and the report.             *)
(* A string of the program is a sequence of one-character strings.         *)
(***************************************************************************)
EXTENDS Integers, Sequences, FiniteSets, TLC

VARIABLES
    portRange,      \* the -p flag, a sequence of characters
    threads,        \* the -t flag
    timeout,        \* the -timeout flag, in milliseconds
    verbose,        \* the -v flag
    parsed,         \* what parsePortRange returned: [ports, err]
    ports,          \* main's ports slice
    pcMain,         \* where main is
    next,           \* index in ports of the next port the loop submits
    wgN,            \* the WaitGroup's counter
    semN,           \* how many tickets the sem channel holds
    closed,         \* whether resultsChan was closed
    wpc,            \* where the worker goroutine of each ports entry is
    netw,           \* what the network answered to each worker's probe
    wres,           \* the PortResult scanPort returned to each worker
    recvCount,      \* how many results of each worker the collector received
    cpc,            \* where the collector goroutine is
    cur,            \* the result the collector is handling
    results,        \* the results slice
    printed,        \* the verbose lines written so far
    shown,          \* the table the report printed
    scannedCount    \* the "Portas escaneadas" count the report printed

flagVars == <<portRange, threads, timeout, verbose, parsed, ports>>

scanVars == <<next, wgN, semN, closed, wpc, netw, wres, recvCount, cpc, cur,
              results, printed, shown, scannedCount>>

vars == <<portRange, threads, timeout, verbose, parsed, ports, pcMain, next,
          wgN, semN, closed, wpc, netw, wres, recvCount, cpc, cur, results,
          printed, shown, scannedCount>>

(***************************************************************************)
(* Bounds of the model.                                                    *)
(***************************************************************************)
\* Longest port range drawn exhaustively over Alphabet.
MaxLen == 5
\* Largest -t value drawn.
MaxThreads == 2
\* Longest list of ports of PortUniverse drawn.
MaxPorts == 2

\* The characters the exhaustive port ranges are made of.
Alphabet == {"1", "2", ",", "-", "+", "a", " "}

(***************************************************************************)
(* Library functions parsePortRange calls, by what they do.                *)
(***************************************************************************)
Digits == <<"0", "1", "2", "3", "4", "5", "6", "7", "8", "9">>

IsDigit(c) == \E d \in 1..10 : Digits[d] = c

DigitVal(c) == (CHOOSE d \in 1..10 : Digits[d] = c) - 1

\* unicode.IsSpace, on the characters a command line holds
IsSpace(c) == c \in {" ", "\t", "\n", "\r"}

\* strings.Contains(s, sep) for a one-character sep
Contains(s, c) == \E i \in 1..Len(s) : s[i] = c

\* strings.TrimSpace
RECURSIVE TrimLeft(_)
TrimLeft(s) ==
    IF Len(s) > 0 /\ IsSpace(s[1]) THEN TrimLeft(Tail(s)) ELSE s

RECURSIVE TrimRight(_)
TrimRight(s) ==
    IF Len(s) > 0 /\ IsSpace(s[Len(s)])
    THEN TrimRight(SubSeq(s, 1, Len(s) - 1))
    ELSE s

TrimSpace(s) == TrimRight(TrimLeft(s))

\* The places of s that hold the separator c.
SepPlaces(s, c) == {i \in 1..Len(s) : s[i] = c}

\* The place of the k-th separator; 0 before the first, Len(s) + 1 after
\* the last.
SepPlace(s, c, k) ==
    IF k = 0 THEN 0
    ELSE IF k > Cardinality(SepPlaces(s, c)) THEN Len(s) + 1
    ELSE CHOOSE p \in SepPlaces(s, c) :
             Cardinality({q \in SepPlaces(s, c) : q < p}) = k - 1

\* strings.Split(s, sep) for a one-character sep: the substrings between
\* the separators, one more than there are separators.
Split(s, c) ==
    [k \in 1..(Cardinality(SepPlaces(s, c)) + 1) |->
        SubSeq(s, SepPlace(s, c, k - 1) + 1, SepPlace(s, c, k) - 1)]

\* The value of a sequence of digits, most significant first.
RECURSIVE DigitsValue(_, _)
DigitsValue(s, acc) ==
    IF Len(s) = 0 THEN acc
    ELSE DigitsValue(Tail(s), acc * 10 + DigitVal(s[1]))

\* An Atoi that reads the empty string as 0, as C's atoi does.
AtoiEmptyIsZero(s) ==
    IF Len(s) = 0 \/ (s[1] \in {"-", "+"} /\ Len(s) = 1)
    THEN [ok |-> TRUE, val |-> 0]
    ELSE LET body == IF s[1] \in {"-", "+"} THEN Tail(s) ELSE s
         IN  IF \E i \in 1..Len(body) : ~IsDigit(body[i])
             THEN [ok |-> FALSE, val |-> 0]
             ELSE [ok  |-> TRUE,
                   val |-> IF s[1] = "-" THEN 0 - DigitsValue(body, 0)
                           ELSE DigitsValue(body, 0)]

\* strconv.Atoi on a string shorter than 19 characters (its fast path):
\* an optional sign, then at least one digit and nothing but digits.
Atoi(s) ==
    IF Len(s) = 0 THEN [ok |-> FALSE, val |-> 0]
    ELSE LET signed == s[1] \in {"-", "+"}
             body   == IF signed THEN Tail(s) ELSE s
         IN  IF Len(body) = 0 \/ \E i \in 1..Len(body) : ~IsDigit(body[i])
             THEN [ok |-> FALSE, val |-> 0]
             ELSE [ok  |-> TRUE,
                   val |-> IF s[1] = "-" THEN 0 - DigitsValue(body, 0)
                           ELSE DigitsValue(body, 0)]

(***************************************************************************)
(* parsePortRange                                                          *)
(***************************************************************************)
ErrNone        == "nil"
ErrRangeFormat == "formato de range invalido"
ErrStart       == "porta inicial invalida"
ErrEnd         == "porta final invalida"
ErrOrder       == "porta inicial maior que porta final"
ErrPort        == "porta invalida"

\* return nil, fmt.Errorf(...)
Fail(e) == [ports |-> <<>>, err |-> e]

\* The loop with port < end for its condition: the last port is left out.
RangePortsExclusive(start, end) == [i \in 1..(end - start) |-> start + i - 1]

\* for port := start; port <= end; port++ { ports = append(ports, port) }
RangePorts(start, end) == [i \in 1..(end - start + 1) |-> start + i - 1]

\* The comparison with its operands exchanged.
StartAfterEndSwapped(start, end) == end > start

\* if start > end
StartAfterEnd(start, end) == start > end

\* The body of the loop over the comma-separated parts, from part k on, with
\* the ports appended so far.
RECURSIVE parseRanges(_, _, _)
parseRanges(ranges, k, acc) ==
    IF k > Len(ranges) THEN [ports |-> acc, err |-> ErrNone]
    ELSE
    LET r == TrimSpace(ranges[k]) IN
    IF Contains(r, "-")
    THEN LET parts == Split(r, "-") IN
         IF Len(parts) # 2 THEN Fail(ErrRangeFormat)
         ELSE LET start == Atoi(parts[1])
                  end   == Atoi(parts[2])
              IN  IF ~start.ok THEN Fail(ErrStart)
                  ELSE IF ~end.ok THEN Fail(ErrEnd)
                  ELSE IF StartAfterEnd(start.val, end.val) THEN Fail(ErrOrder)
                  ELSE parseRanges(ranges, k + 1,
                                   acc \o RangePorts(start.val, end.val))
    ELSE LET port == Atoi(r) IN
         IF ~port.ok THEN Fail(ErrPort)
         ELSE parseRanges(ranges, k + 1, Append(acc, port.val))

parsePortRange(s) ==
    IF s = <<>> THEN [ports |-> <<>>, err |-> ErrNone]
    ELSE parseRanges(Split(s, ","), 1, <<>>)

(***************************************************************************)
(* main, up to the start of the scan                                       *)
(***************************************************************************)
\* defaultTimeout, the default of -timeout, in milliseconds.
defaultTimeout == 500

\* resolvedIP, err := validateHost(host); if err != nil { os.Exit(1) }
\* The resolver answers with an address or with an error. The liveness
\* check and the IPv4 preference that follow change nothing the scan reads
\* but the address.
ResolveHost ==
    /\ pcMain = "resolve"
    /\ \E resolved \in BOOLEAN :
           pcMain' = IF resolved THEN "parse" ELSE "exit1"
    /\ UNCHANGED <<portRange, threads, timeout, verbose, parsed, ports>>
    /\ UNCHANGED scanVars

DefaultFirst == 1
DefaultLast == 1024

NotParsed == [ports |-> <<>>, err |-> "unset"]

\* main going on after an error of parsePortRange, with the nil list it
\* returned.
ParsePortsIgnoreError ==
    /\ pcMain = "parse"
    /\ parsed' = parsePortRange(portRange)
    /\ pcMain' = "default"
    /\ UNCHANGED <<portRange, threads, timeout, verbose, ports>>
    /\ UNCHANGED scanVars

\* ports, err := parsePortRange(portRange); if err != nil { os.Exit(1) }
ParsePorts ==
    /\ pcMain = "parse"
    /\ LET r == parsePortRange(portRange)
       IN  /\ parsed' = r
           /\ pcMain' = IF r.err # ErrNone THEN "exit1" ELSE "default"
    /\ UNCHANGED <<portRange, threads, timeout, verbose, ports>>
    /\ UNCHANGED scanVars

\* if len(ports) == 0 { for i := 1; i <= 1024; i++ { ports = append(ports, i) } }
DefaultPorts ==
    /\ pcMain = "default"
    /\ ports' = IF Len(parsed.ports) = 0
                THEN [i \in 1..(DefaultLast - DefaultFirst + 1) |->
                         DefaultFirst + i - 1]
                ELSE parsed.ports
    /\ pcMain' = "start"
    /\ UNCHANGED <<portRange, threads, timeout, verbose, parsed>>
    /\ UNCHANGED scanVars

(***************************************************************************)
(* scanPort                                                                *)
(***************************************************************************)
commonPorts ==
    (21 :> "FTP") @@ (22 :> "SSH") @@ (23 :> "Telnet") @@ (25 :> "SMTP") @@
    (53 :> "DNS") @@ (80 :> "HTTP") @@ (110 :> "POP3") @@ (111 :> "RPC") @@
    (135 :> "MSRPC") @@ (139 :> "NetBIOS") @@ (143 :> "IMAP") @@
    (443 :> "HTTPS") @@ (445 :> "SMB") @@ (993 :> "IMAPS") @@
    (995 :> "POP3S") @@ (1723 :> "PPTP") @@ (3306 :> "MySQL") @@
    (3389 :> "RDP") @@ (5900 :> "VNC") @@ (8080 :> "HTTP-Proxy")

\* What d.Dial can answer: a connection, or an error that is a timeout
\* (net.Error with Timeout() true), a refusal or an unreachable network.
DialAnswers == {"connected", "timeout", "refused", "unreachable"}

\* What conn.Read can answer within the read deadline.
ReadAnswers == {"bytes", "timeout", "eof"}

NoRead == "none"

\* readTimeout := 200 * time.Millisecond, in milliseconds
readTimeout == 200

\* timeoutDuration := time.Duration(timeout) * time.Millisecond, the
\* Timeout of the Dialer, in milliseconds
timeoutDuration == timeout

\* Every failed dial taken for a timeout.
IsTimeoutAnyError(dial) == dial # "connected"

\* netErr, ok := err.(net.Error); ok && netErr.Timeout()
IsTimeout(dial) == dial = "timeout"

\* A probe that reads from every connection, the ports of commonPorts
\* included.
NetAnswersAlwaysRead(port) ==
    {[dial |-> d, read |-> NoRead] : d \in DialAnswers \ {"connected"}}
    \cup {[dial |-> "connected", read |-> r] : r \in ReadAnswers}

\* The answers of the network to one probe of a port: the dial's and, when a
\* read follows (the port connected and is not in commonPorts), the read's.
NetAnswers(port) ==
    {[dial |-> d, read |-> NoRead] : d \in DialAnswers \ {"connected"}}
    \cup (IF port \in DOMAIN commonPorts
          THEN {[dial |-> "connected", read |-> NoRead]}
          ELSE {[dial |-> "connected", read |-> r] : r \in ReadAnswers})

\* The answers a run draws: one failed dial of each class (a timeout, a
\* refusal) and one failed read.
RunAnswers(port) ==
    {a \in NetAnswers(port) : a.dial # "unreachable" /\ a.read # "eof"}

scanPort(port, a) ==
    IF a.dial = "connected"
    THEN [Port    |-> port,
          State   |-> "open",
          Service |-> IF port \in DOMAIN commonPorts THEN commonPorts[port]
                      ELSE IF a.read = "bytes" THEN "custom-service"
                      ELSE "unknown"]
    ELSE [Port    |-> port,
          State   |-> IF IsTimeout(a.dial) THEN "filtered" ELSE "closed",
          Service |-> "unknown"]

(***************************************************************************)
(* main: the scan                                                          *)
(***************************************************************************)
NoResult == [Port |-> -1, State |-> "none", Service |-> "none"]

NoAnswer == [dial |-> "none", read |-> NoRead]

N == Len(ports)

\* make([]PortResult, 0), the channels, the semaphore, and the collector
\* goroutine, which starts at its range over resultsChan.
Setup ==
    /\ pcMain = "start"
    /\ wgN' = 0
    /\ semN' = 0
    /\ closed' = FALSE
    /\ results' = <<>>
    /\ wpc' = [i \in 1..N |-> "idle"]
    /\ netw' = [i \in 1..N |-> NoAnswer]
    /\ wres' = [i \in 1..N |-> NoResult]
    /\ recvCount' = [i \in 1..N |-> 0]
    /\ cpc' = "recv"
    /\ next' = 1
    /\ pcMain' = "loop"
    /\ UNCHANGED <<flagVars, cur, printed, shown, scannedCount>>

\* for _, port := range ports { wg.Add(1)
MainAdd ==
    /\ pcMain = "loop"
    /\ next <= N
    /\ wgN' = wgN + 1
    /\ pcMain' = "acquire"
    /\ UNCHANGED <<flagVars, next, semN, closed, wpc, netw, wres, recvCount,
                   cpc, cur, results, printed, shown, scannedCount>>

\* A semaphore made with one slot too many.
SemHasRoomOneMore == semN <= threads

\* A send on a channel of capacity 0 that goes through without a receiver.
SemHasRoomOrUnbuffered == semN < threads \/ threads = 0

\* A send on sem, a channel of capacity threads, goes through when the
\* buffer has room. (With capacity 0 it needs a receiver, and the only
\* receivers are workers, launched after a send went through.)
SemHasRoom == semN < threads

\* sem <- struct{}{}
MainAcquire ==
    /\ pcMain = "acquire"
    /\ SemHasRoom
    /\ semN' = semN + 1
    /\ pcMain' = "launch"
    /\ UNCHANGED <<flagVars, next, wgN, closed, wpc, netw, wres, recvCount,
                   cpc, cur, results, printed, shown, scannedCount>>

\* go func(p int) {...}(port) }
MainLaunch ==
    /\ pcMain = "launch"
    /\ wpc' = [wpc EXCEPT ![next] = "scan"]
    /\ next' = next + 1
    /\ pcMain' = "loop"
    /\ UNCHANGED <<flagVars, wgN, semN, closed, netw, wres, recvCount, cpc,
                   cur, results, printed, shown, scannedCount>>

\* the range over ports is exhausted
MainLoopEnd ==
    /\ pcMain = "loop"
    /\ next > N
    /\ pcMain' = "wait"
    /\ UNCHANGED <<flagVars, scanVars>>

\* main going on to the close without waiting for the workers.
MainWaitNoJoin ==
    /\ pcMain = "wait"
    /\ pcMain' = "close"
    /\ UNCHANGED <<flagVars, scanVars>>

\* wg.Wait()
MainWait ==
    /\ pcMain = "wait"
    /\ wgN = 0
    /\ pcMain' = "close"
    /\ UNCHANGED <<flagVars, scanVars>>

\* close(resultsChan)
MainClose ==
    /\ pcMain = "close"
    /\ closed' = TRUE
    /\ pcMain' = "recvDone"
    /\ UNCHANGED <<flagVars, next, wgN, semN, wpc, netw, wres, recvCount, cpc,
                   cur, results, printed, shown, scannedCount>>

\* main going on to the sort without the receive from done.
MainSkipDone ==
    /\ pcMain = "recvDone"
    /\ pcMain' = "sort"
    /\ UNCHANGED <<flagVars, scanVars>>

\* <-done, which meets the collector's done <- true
MainRecvDone ==
    /\ pcMain = "recvDone"
    /\ cpc = "sendDone"
    /\ cpc' = "end"
    /\ pcMain' = "sort"
    /\ UNCHANGED <<flagVars, next, wgN, semN, closed, wpc, netw, wres,
                   recvCount, cur, results, printed, shown, scannedCount>>

\* results[i].Port < results[j].Port
Less(a, b) == a.Port < b.Port

\* What sort.Slice may leave: a permutation of rs in which no entry is Less
\* than one before it. sort.Slice is not stable, so equal ports may end in
\* either order.
SortSlice(rs) ==
    {[i \in 1..Len(rs) |-> rs[p[i]]] : p \in Permutations(1..Len(rs))}
    \cap {s \in [1..Len(rs) -> {rs[i] : i \in 1..Len(rs)}] :
             \A i, j \in 1..Len(rs) : i < j => ~Less(s[j], s[i])}

\* sort.Slice(results, ...)
MainSort ==
    /\ pcMain = "sort"
    /\ results' \in SortSlice(results)
    /\ pcMain' = "display"
    /\ UNCHANGED <<flagVars, next, wgN, semN, closed, wpc, netw, wres,
                   recvCount, cpc, cur, printed, shown, scannedCount>>

\* The report counting the open ports instead of the scanned ones.
MainDisplayCountsOpen ==
    /\ pcMain = "display"
    /\ scannedCount' = Len(results)
    /\ shown' = results
    /\ pcMain' = "done"
    /\ UNCHANGED <<flagVars, next, wgN, semN, closed, wpc, netw, wres,
                   recvCount, cpc, cur, results, printed>>

\* "Portas escaneadas:", len(ports), then one row per entry of results
MainDisplay ==
    /\ pcMain = "display"
    /\ scannedCount' = Len(ports)
    /\ shown' = results
    /\ pcMain' = "done"
    /\ UNCHANGED <<flagVars, next, wgN, semN, closed, wpc, netw, wres,
                   recvCount, cpc, cur, results, printed>>

(***************************************************************************)
(* The worker goroutine of ports[i]                                        *)
(***************************************************************************)
\* result := scanPort(resolvedIP, p, timeoutDuration), the network
\* answering one of answers
Probe(i, answers) ==
    /\ wpc[i] = "scan"
    /\ \E a \in answers :
           /\ netw' = [netw EXCEPT ![i] = a]
           /\ wres' = [wres EXCEPT ![i] = scanPort(ports[i], a)]
    /\ wpc' = [wpc EXCEPT ![i] = "send"]
    /\ UNCHANGED <<flagVars, pcMain, next, wgN, semN, closed, recvCount, cpc,
                   cur, results, printed, shown, scannedCount>>

\* A worker that gives its ticket back as soon as scanPort returned,
\* before the hand-off of the result.
WorkerScanThenRelease(i) ==
    /\ wpc[i] = "scan"
    /\ \E a \in RunAnswers(ports[i]) :
           /\ netw' = [netw EXCEPT ![i] = a]
           /\ wres' = [wres EXCEPT ![i] = scanPort(ports[i], a)]
    /\ semN' = semN - 1
    /\ wpc' = [wpc EXCEPT ![i] = "send"]
    /\ UNCHANGED <<flagVars, pcMain, next, wgN, closed, recvCount, cpc, cur,
                   results, printed, shown, scannedCount>>

WorkerScan(i) == Probe(i, RunAnswers(ports[i]))

\* A send that gives up when the collector is not ready (a select with a
\* default case): the result is dropped.
WorkerSendOrDrop(i) ==
    /\ wpc[i] = "send"
    /\ ~closed
    /\ IF cpc = "recv"
       THEN /\ cur' = wres[i]
            /\ recvCount' = [recvCount EXCEPT ![i] = @ + 1]
            /\ cpc' = "handle"
       ELSE UNCHANGED <<cur, recvCount, cpc>>
    /\ wpc' = [wpc EXCEPT ![i] = "release"]
    /\ UNCHANGED <<flagVars, pcMain, next, wgN, semN, closed, netw, wres,
                   results, printed, shown, scannedCount>>

\* resultsChan <- result, which meets the collector's receive: the channel
\* has no buffer.
WorkerSend(i) ==
    /\ wpc[i] = "send"
    /\ cpc = "recv"
    /\ ~closed
    /\ cur' = wres[i]
    /\ recvCount' = [recvCount EXCEPT ![i] = @ + 1]
    /\ cpc' = "handle"
    /\ wpc' = [wpc EXCEPT ![i] = "release"]
    /\ UNCHANGED <<flagVars, pcMain, next, wgN, semN, closed, netw, wres,
                   results, printed, shown, scannedCount>>

\* A worker that gives its ticket back only when it found the port open:
\* a release on the success path instead of a deferred one.
WorkerReleaseOnlyOpen(i) ==
    /\ wpc[i] = "release"
    /\ semN > 0
    /\ semN' = IF wres[i].State = "open" THEN semN - 1 ELSE semN
    /\ wpc' = [wpc EXCEPT ![i] = "wgdone"]
    /\ UNCHANGED <<flagVars, pcMain, next, wgN, closed, netw, wres, recvCount,
                   cpc, cur, results, printed, shown, scannedCount>>

\* The progress line, when p%100 == 0, changes nothing the scan reads; then
\* defer func() { <-sem }(), the deferred call that runs first.
WorkerRelease(i) ==
    /\ wpc[i] = "release"
    /\ semN > 0
    /\ semN' = semN - 1
    /\ wpc' = [wpc EXCEPT ![i] = "wgdone"]
    /\ UNCHANGED <<flagVars, pcMain, next, wgN, closed, netw, wres, recvCount,
                   cpc, cur, results, printed, shown, scannedCount>>

\* defer wg.Done(), the deferred call that runs last
WorkerDone(i) ==
    /\ wpc[i] = "wgdone"
    /\ wgN' = wgN - 1
    /\ wpc' = [wpc EXCEPT ![i] = "exited"]
    /\ UNCHANGED <<flagVars, pcMain, next, semN, closed, netw, wres,
                   recvCount, cpc, cur, results, printed, shown, scannedCount>>

(***************************************************************************)
(* The collector goroutine                                                 *)
(***************************************************************************)
\* A collector that, in verbose mode, stores the filtered results it
\* prints.
CollectorHandleStoresPrinted ==
    /\ cpc = "handle"
    /\ results' = IF cur.State = "open" \/ (verbose /\ cur.State = "filtered")
                  THEN Append(results, cur) ELSE results
    /\ printed' = IF verbose /\ cur.State \in {"open", "filtered"}
                  THEN Append(printed, [Port |-> cur.Port, State |-> cur.State])
                  ELSE printed
    /\ cpc' = "recv"
    /\ UNCHANGED <<flagVars, pcMain, next, wgN, semN, closed, wpc, netw, wres,
                   recvCount, cur, shown, scannedCount>>

\* The body of the range over resultsChan, for the result received.
CollectorHandle ==
    /\ cpc = "handle"
    /\ results' = IF cur.State = "open" THEN Append(results, cur) ELSE results
    /\ printed' = IF verbose /\ cur.State \in {"open", "filtered"}
                  THEN Append(printed, [Port |-> cur.Port, State |-> cur.State])
                  ELSE printed
    /\ cpc' = "recv"
    /\ UNCHANGED <<flagVars, pcMain, next, wgN, semN, closed, wpc, netw, wres,
                   recvCount, cur, shown, scannedCount>>

\* A collector that leaves its loop without waiting for the close.
CollectorLoopEndEarly ==
    /\ cpc = "recv"
    /\ cpc' = "sendDone"
    /\ UNCHANGED <<flagVars, pcMain, next, wgN, semN, closed, wpc, netw, wres,
                   recvCount, cur, results, printed, shown, scannedCount>>

\* The range ends when resultsChan is closed.
CollectorLoopEnd ==
    /\ cpc = "recv"
    /\ closed
    /\ cpc' = "sendDone"
    /\ UNCHANGED <<flagVars, pcMain, next, wgN, semN, closed, wpc, netw, wres,
                   recvCount, cur, results, printed, shown, scannedCount>>

(***************************************************************************)
(* The Port Set Resolver on its own: every port range over Alphabet of at  *)
(* most MaxLen characters, and the examples of the documentation.          *)
(***************************************************************************)
RECURSIVE StringsUpTo(_)
StringsUpTo(n) ==
    IF n = 0 THEN {<<>>}
    ELSE LET shorter == StringsUpTo(n - 1)
         IN  shorter \cup {Append(s, c) : s \in shorter, c \in Alphabet}

ParseExamples ==
    { <<"2","2",",","8","0",",","1","0","0","-","2","0","0">>,
      <<"2","0","0","-","1","0","0">>,
      <<"a","b","c">>,
      <<"2","2","-","a","b","c">>,
      <<"7","9","9","9","-","8","0","0","1">>,
      <<"+","5">>,
      <<"1","-","2","-","3">> }

ParseInputs == StringsUpTo(MaxLen) \cup ParseExamples

\* The values the variables of the scan hold before Setup.
ScanUnset ==
    /\ next = 0
    /\ wgN = 0
    /\ semN = 0
    /\ closed = FALSE
    /\ wpc = <<>>
    /\ netw = <<>>
    /\ wres = <<>>
    /\ recvCount = <<>>
    /\ cpc = "off"
    /\ cur = NoResult
    /\ results = <<>>
    /\ printed = <<>>
    /\ shown = <<>>
    /\ scannedCount = -1

ParseInit ==
    /\ portRange \in ParseInputs
    /\ threads = 1
    /\ timeout = defaultTimeout
    /\ verbose = FALSE
    /\ parsed = NotParsed
    /\ ports = <<>>
    /\ pcMain = "parse"
    /\ ScanUnset

ParseNext == ParsePorts \/ DefaultPorts

ParseSpec == ParseInit /\ [][ParseNext]_vars

(***************************************************************************)
(* The whole run: the port ranges that list up to MaxPorts of the ports of *)
(* PortUniverse, and the examples of the documentation.                    *)
(***************************************************************************)
\* 80 is in commonPorts, 8000 is not (and is a multiple of 100).
PortUniverse == {80, 8000}

\* The decimal text of a port, as typed on the command line.
RECURSIVE PortText(_)
PortText(p) ==
    IF p < 10 THEN <<Digits[p + 1]>>
    ELSE Append(PortText(p \div 10), Digits[(p % 10) + 1])

RECURSIVE JoinPorts(_)
JoinPorts(l) ==
    IF Len(l) = 1 THEN PortText(l[1])
    ELSE PortText(l[1]) \o <<",">> \o JoinPorts(Tail(l))

PortLists == UNION {[1..n -> PortUniverse] : n \in 1..MaxPorts}

ScanExamples ==
    { <<"7","9","9","9","-","8","0","0","1">>,
      <<"2","0","0","-","1","0","0">>,
      <<"a","b","c">>,
      <<"2","2","-","a","b","c">> }

ScanInputs == {JoinPorts(l) : l \in PortLists} \cup ScanExamples

\* The -t flag is not validated: 0 is a ceiling the caller can ask for.
Init ==
    /\ portRange \in ScanInputs
    /\ threads \in 0..MaxThreads
    /\ timeout = defaultTimeout
    /\ verbose \in BOOLEAN
    /\ parsed = NotParsed
    /\ ports = <<>>
    /\ pcMain = "resolve"
    /\ ScanUnset

Worker(i) ==
    \/ WorkerScan(i)
    \/ WorkerSend(i)
    \/ WorkerRelease(i)
    \/ WorkerDone(i)

\* The steps of the scan, from the setup of the channels to the report.
ScanNext ==
    \/ \E i \in DOMAIN wpc : Worker(i)
    \/ CollectorHandle
    \/ CollectorLoopEnd
    \/ Setup
    \/ MainAdd
    \/ MainAcquire
    \/ MainLaunch
    \/ MainLoopEnd
    \/ MainWait
    \/ MainClose
    \/ MainRecvDone
    \/ MainSort
    \/ MainDisplay

Next ==
    \/ ResolveHost
    \/ ParsePorts
    \/ DefaultPorts
    \/ ScanNext

Spec == Init /\ [][Next]_vars

\* Once main has its list of ports, the Go scheduler runs a goroutine that
\* can take a step.
FairSpec == Spec /\ WF_vars(ScanNext)

(***************************************************************************)
(* The Probe on its own: one worker at its scanPort call, for the ports of *)
(* commonPorts and some others, under every answer of the network.         *)
(***************************************************************************)
ProbePorts == DOMAIN commonPorts \cup {0, 81, 7999, 8000, 8001, 65535}

\* -timeout values around the read deadline of scanPort, and the default.
TimeoutValues == {1, 100, 200, 201, defaultTimeout}

ProbeInit ==
    /\ ports \in {<<p>> : p \in ProbePorts}
    /\ portRange = PortText(ports[1])
    /\ parsed = [ports |-> ports, err |-> ErrNone]
    /\ threads \in 1..MaxThreads
    /\ timeout \in TimeoutValues
    /\ verbose = FALSE
    /\ pcMain = "wait"
    /\ next = 2
    /\ wgN = 1
    /\ semN = 1
    /\ closed = FALSE
    /\ wpc = <<"scan">>
    /\ netw = <<NoAnswer>>
    /\ wres = <<NoResult>>
    /\ recvCount = <<0>>
    /\ cpc = "recv"
    /\ cur = NoResult
    /\ results = <<>>
    /\ printed = <<>>
    /\ shown = <<>>
    /\ scannedCount = -1

ProbeNext == Probe(1, NetAnswers(ports[1]))

ProbeSpec == ProbeInit /\ [][ProbeNext]_vars

(***************************************************************************)
(* The terms of the resolver's contract: the tokens of a port range and    *)
(* what each one stands for.                                               *)
(***************************************************************************)
\* The comma-separated tokens, the blanks around each removed; the empty
\* port range has none.
TokensOf(s) ==
    IF s = <<>> THEN <<>>
    ELSE LET parts == Split(s, ",")
         IN  [k \in 1..Len(parts) |-> TrimSpace(parts[k])]

HyphenPlaces(t) == {i \in 1..Len(t) : t[i] = "-"}

\* A decimal integer: digits, after an optional plus sign.
IsInteger(t) ==
    LET b == IF Len(t) > 0 /\ t[1] = "+" THEN Tail(t) ELSE t
    IN  Len(b) > 0 /\ \A i \in 1..Len(b) : IsDigit(b[i])

RECURSIVE Pow10(_)
Pow10(n) == IF n = 0 THEN 1 ELSE 10 * Pow10(n - 1)

RECURSIVE SumTo(_, _)
SumTo(f, n) == IF n = 0 THEN 0 ELSE f[n] + SumTo(f, n - 1)

IntegerOf(t) ==
    LET b == IF t[1] = "+" THEN Tail(t) ELSE t
    IN  SumTo([i \in 1..Len(b) |-> DigitVal(b[i]) * Pow10(Len(b) - i)], Len(b))

RangeStart(t) ==
    LET h == CHOOSE i \in HyphenPlaces(t) : TRUE IN SubSeq(t, 1, h - 1)

RangeEnd(t) ==
    LET h == CHOOSE i \in HyphenPlaces(t) : TRUE IN SubSeq(t, h + 1, Len(t))

\* single and range are the valid tokens; the others are what is wrong with
\* an invalid one.
TokenKind(t) ==
    IF HyphenPlaces(t) = {}
    THEN IF IsInteger(t) THEN "single" ELSE "not_integer"
    ELSE IF Cardinality(HyphenPlaces(t)) > 1 THEN "bad_format"
    ELSE IF ~IsInteger(RangeStart(t)) \/ ~IsInteger(RangeEnd(t))
         THEN "not_integer"
    ELSE IF IntegerOf(RangeStart(t)) > IntegerOf(RangeEnd(t)) THEN "bad_order"
    ELSE "range"

IsValidToken(t) == TokenKind(t) \in {"single", "range"}

\* What a valid token stands for: n, or start, start+1, ..., end.
Expansion(t) ==
    IF TokenKind(t) = "single" THEN <<IntegerOf(t)>>
    ELSE LET a == IntegerOf(RangeStart(t))
             b == IntegerOf(RangeEnd(t))
         IN  [i \in 1..(b - a + 1) |-> a + i - 1]

RECURSIVE ConcatExpansions(_)
ConcatExpansions(toks) ==
    IF Len(toks) = 0 THEN <<>>
    ELSE Expansion(toks[1]) \o ConcatExpansions(Tail(toks))

\* The kind of the first invalid token, "none" when every token is valid.
FirstInvalidKind(toks) ==
    IF \A k \in 1..Len(toks) : IsValidToken(toks[k]) THEN "none"
    ELSE LET k == CHOOSE j \in 1..Len(toks) :
                      /\ ~IsValidToken(toks[j])
                      /\ \A l \in 1..(j - 1) : IsValidToken(toks[l])
         IN  TokenKind(toks[k])

Resolved == parsed # NotParsed

Example22_80_100_200 ==
    <<"2","2",",","8","0",",","1","0","0","-","2","0","0">>

(***************************************************************************)
(* C7. On a port range whose tokens are all valid, parsePortRange returns  *)
(* no error and the concatenation, in token order, of the tokens'          *)
(* expansions, duplicates kept, its length the sum of the expansions'      *)
(* lengths; "22,80,100-200" gives 22, 80, 100..200, 103 ports; the empty   *)
(* port range gives the empty list.                                        *)
(***************************************************************************)
C7_ResolverValid ==
    Resolved =>
        LET toks == TokensOf(portRange) IN
        /\ portRange = <<>> => parsed = [ports |-> <<>>, err |-> ErrNone]
        /\ (\A k \in 1..Len(toks) : IsValidToken(toks[k])) =>
              /\ parsed.err = ErrNone
              /\ parsed.ports = ConcatExpansions(toks)
              /\ Len(parsed.ports) =
                     SumTo([k \in 1..Len(toks) |-> Len(Expansion(toks[k]))],
                           Len(toks))
        /\ portRange = Example22_80_100_200 =>
              /\ parsed.err = ErrNone
              /\ Len(parsed.ports) = 103
              /\ parsed.ports = <<22, 80>> \o [i \in 1..101 |-> 99 + i]

C7_Witness ==
    /\ Resolved
    /\ portRange = Example22_80_100_200
    /\ Len(parsed.ports) = 103

\* A second case of C7: a range after a repeated port, duplicates kept.
C7_DuplicatesKept ==
    portRange = <<"1", ",", "1", "-", "2">> /\ Resolved
        => parsed.ports = <<1, 1, 2>>

(***************************************************************************)
(* C8, as claimed. A port range with a range token whose start is greater  *)
(* than its end fails with the error "porta inicial maior que porta        *)
(* final", whatever its other tokens are.                                  *)
(***************************************************************************)
C8_OrderErrorWhateverOthers ==
    Resolved /\ (\E k \in DOMAIN TokensOf(portRange) :
                     TokenKind(TokensOf(portRange)[k]) = "bad_order")
        => parsed = Fail(ErrOrder)

(***************************************************************************)
(* C8, amended. A port range whose first invalid token is a range token    *)
(* with integer endpoints and start greater than end fails with the error  *)
(* "porta inicial maior que porta final" and returns no port list.         *)
(***************************************************************************)
C8_OrderErrorWhenFirst ==
    Resolved /\ FirstInvalidKind(TokensOf(portRange)) = "bad_order"
        => parsed = Fail(ErrOrder)

C8_Witness ==
    /\ Resolved
    /\ portRange = <<"1", ",", "2", "-", "1">>
    /\ parsed.err = ErrOrder

(***************************************************************************)
(* C9, as claimed. A port range with a token that is not an integer (a     *)
(* singleton, or an endpoint of a range) fails with one of the errors      *)
(* "porta invalida", "porta inicial invalida", "porta final invalida",     *)
(* whatever its other tokens are.                                          *)
(***************************************************************************)
C9_NumberErrorWhateverOthers ==
    Resolved /\ (\E k \in DOMAIN TokensOf(portRange) :
                     TokenKind(TokensOf(portRange)[k]) = "not_integer")
        => /\ parsed.err \in {ErrPort, ErrStart, ErrEnd}
           /\ parsed.ports = <<>>

(***************************************************************************)
(* C9, amended. A port range whose first invalid token is not an integer   *)
(* (a singleton that is no decimal integer, or a range of two parts with   *)
(* an endpoint that is none) fails with "porta invalida" for a singleton,  *)
(* "porta inicial invalida" or "porta final invalida" for a range, and     *)
(* returns no port list.                                                   *)
(***************************************************************************)
C9_NumberErrorWhenFirst ==
    Resolved /\ FirstInvalidKind(TokensOf(portRange)) = "not_integer"
        => /\ parsed.ports = <<>>
           /\ LET toks == TokensOf(portRange)
                  k == CHOOSE j \in 1..Len(toks) :
                           /\ ~IsValidToken(toks[j])
                           /\ \A l \in 1..(j - 1) : IsValidToken(toks[l])
              IN  IF HyphenPlaces(toks[k]) = {} THEN parsed.err = ErrPort
                  ELSE IF ~IsInteger(RangeStart(toks[k]))
                       THEN parsed.err = ErrStart
                  ELSE parsed.err = ErrEnd

C9_Witness ==
    /\ Resolved
    /\ portRange = <<"2", "2", "-", "a", "b", "c">>
    /\ parsed.err = ErrEnd

(***************************************************************************)
(* The terms of the scan's claims.                                         *)
(***************************************************************************)
\* main is past <-done: the scan is declared complete.
Complete == pcMain \in {"sort", "display", "done"}

\* The workers inside their scanPort call.
Probing == {i \in DOMAIN wpc : wpc[i] = "scan"}

Scanning == pcMain \notin {"resolve", "parse", "default", "start", "exit1"}

(***************************************************************************)
(* The terms of C1.                                                        *)
(***************************************************************************)
\* Under FairSpec a scan that starts prints its report.
ReachesCompletion ==
    (pcMain = "start" /\ threads >= 1) ~> (pcMain = "done")

\* How many steps main has left: three per port to submit, then the join,
\* the close, the receive from done, the sort and the report.
MainStepsLeft ==
    IF pcMain = "loop" THEN 3 * (Len(ports) - next + 1) + 6
    ELSE IF pcMain = "acquire" THEN 3 * (Len(ports) - next + 1) + 5
    ELSE IF pcMain = "launch" THEN 3 * (Len(ports) - next + 1) + 4
    ELSE IF pcMain = "wait" THEN 5
    ELSE IF pcMain = "close" THEN 4
    ELSE IF pcMain = "recvDone" THEN 3
    ELSE IF pcMain = "sort" THEN 2
    ELSE IF pcMain = "display" THEN 1
    ELSE 0

WorkerStepsLeft(i) ==
    IF wpc[i] = "idle" THEN 5
    ELSE IF wpc[i] = "scan" THEN 4
    ELSE IF wpc[i] = "send" THEN 3
    ELSE IF wpc[i] = "release" THEN 2
    ELSE IF wpc[i] = "wgdone" THEN 1
    ELSE 0

CollectorStepsLeft ==
    2 * Cardinality({i \in DOMAIN recvCount : recvCount[i] = 0})
    + (IF cpc = "handle" THEN 3
       ELSE IF cpc = "recv" THEN 2
       ELSE IF cpc = "sendDone" THEN 1
       ELSE 0)

StepsLeft ==
    MainStepsLeft + CollectorStepsLeft
    + SumTo([i \in DOMAIN wpc |-> WorkerStepsLeft(i)], Len(wpc))

(***************************************************************************)
(* C1. Join completeness. With a ceiling of at least 1, a scan that starts *)
(* reaches completion (wg.Wait returned, resultsChan closed, the collector *)
(* signalled done), no result is ever received twice, and at completion    *)
(* the collector has received exactly one result per entry of the port     *)
(* list: as many results as the list has entries.                          *)
(* As checked: in every state no result was received twice; once the scan  *)
(* is complete the join is done and each entry's result was received once; *)
(* until the report is printed some goroutine can take a step; and every   *)
(* step of the scan brings the end nearer, so that a run that keeps taking *)
(* steps, as the fairness of FairSpec has it, prints the report.           *)
(***************************************************************************)
C1_JoinCompleteness ==
    /\ [](\A i \in DOMAIN recvCount : recvCount[i] <= 1)
    /\ [](Complete =>
             /\ wgN = 0 /\ closed /\ cpc = "end"
             /\ DOMAIN recvCount = 1..Len(ports)
             /\ \A i \in 1..Len(ports) : recvCount[i] = 1
             /\ SumTo(recvCount, Len(ports)) = Len(ports))
    /\ []((threads >= 1
           /\ pcMain \notin {"resolve", "parse", "default", "done", "exit1"})
             => ENABLED ScanNext)
    /\ [][Scanning /\ pcMain' = pcMain
             => StepsLeft' < StepsLeft]_vars
    /\ [][Scanning /\ pcMain' # pcMain
             => StepsLeft' < StepsLeft /\ MainStepsLeft' < MainStepsLeft]_vars

\* A list longer than the ceiling, so that the loop had to wait for tickets.
C1_Witness ==
    /\ pcMain = "done"
    /\ Len(ports) = 3
    /\ threads = 2
    /\ \A i \in 1..3 : recvCount[i] = 1

(***************************************************************************)
(* C2. Ticket-bound concurrency. In every state of a scan the number of    *)
(* workers that were launched and whose scanPort call has not returned is  *)
(* at most the ceiling.                                                    *)
(***************************************************************************)
C2_TicketBound == Cardinality(Probing) <= threads

\* The ceiling is reached while a port still waits for a ticket.
C2_Witness ==
    /\ Cardinality(Probing) = threads
    /\ pcMain = "acquire"
    /\ threads = 2

(***************************************************************************)
(* C3. Three-part join. main is past <-done only when every port of the    *)
(* list was submitted, every launched worker has finished, and the         *)
(* collector has received and handled every result produced.               *)
(***************************************************************************)
C3_JoinOrdering ==
    Complete =>
        /\ next = Len(ports) + 1
        /\ \A i \in DOMAIN wpc : wpc[i] = "exited"
        /\ \A i \in DOMAIN wres : wres[i] # NoResult /\ recvCount[i] = 1
        /\ cpc = "end"
        /\ Len(results) =
               Cardinality({i \in DOMAIN wres : wres[i].State = "open"})

C3_Witness ==
    /\ pcMain = "sort"
    /\ Len(ports) = 3
    /\ Len(results) = 2

(***************************************************************************)
(* C4. The table the report prints is sorted strictly ascending by port:   *)
(* every row's port is less than the next row's.                           *)
(***************************************************************************)
C4_StrictlyAscending ==
    pcMain = "done" =>
        \A i \in 1..(Len(shown) - 1) : shown[i].Port < shown[i + 1].Port

\* What the sort does give: no row's port is greater than the next row's.
C4_Ascending ==
    pcMain \in {"display", "done"} =>
        \A i \in 1..(Len(results) - 1) : results[i].Port <= results[i + 1].Port

(***************************************************************************)
(* C5. The results slice never holds two entries with the same port.       *)
(***************************************************************************)
C5_UniquePorts ==
    \A i, j \in DOMAIN results : i # j => results[i].Port # results[j].Port

(***************************************************************************)
(* C6, as claimed. Scanning "7999-8001" where only port 8000 accepts       *)
(* connections, an HTTP server, and 7999 and 8001 refuse, reports the one  *)
(* row {8000, open, HTTP} and 3 scanned ports.                             *)
(***************************************************************************)
Scan7999_8001 == <<"7","9","9","9","-","8","0","0","1">>

\* An HTTP server sends nothing until it is asked: the read times out.
Only8000Accepts ==
    /\ portRange = Scan7999_8001
    /\ pcMain = "done"
    /\ netw = << [dial |-> "refused", read |-> NoRead],
                 [dial |-> "connected", read |-> "timeout"],
                 [dial |-> "refused", read |-> NoRead] >>

C6_ScenarioHTTP ==
    Only8000Accepts =>
        /\ shown = <<[Port |-> 8000, State |-> "open", Service |-> "HTTP"]>>
        /\ scannedCount = 3

(***************************************************************************)
(* C6, amended. The same scan reports the one row {8000, open, unknown}    *)
(* and 3 scanned ports: 8000 is not in commonPorts, and the server sends   *)
(* no banner before the read deadline.                                     *)
(***************************************************************************)
C6_ScenarioUnknown ==
    Only8000Accepts =>
        /\ shown = <<[Port |-> 8000, State |-> "open", Service |-> "unknown"]>>
        /\ scannedCount = 3

C6_Witness == Only8000Accepts /\ Len(shown) = 1

(***************************************************************************)
(* C10. Probe state classification. scanPort returns a PortResult for the  *)
(* port it was given, whose state is open exactly when the dial connected, *)
(* filtered exactly when the dial failed with a timeout, and closed for    *)
(* every other failure of the dial.                                        *)
(***************************************************************************)
C10_StateClassification ==
    \A i \in DOMAIN wres :
        wres[i] # NoResult =>
            /\ wres[i].Port = ports[i]
            /\ wres[i].State \in {"open", "filtered", "closed"}
            /\ wres[i].State = "open" <=> netw[i].dial = "connected"
            /\ wres[i].State = "filtered" <=> netw[i].dial = "timeout"
            /\ wres[i].State = "closed" <=>
                   netw[i].dial \in {"refused", "unreachable"}

C10_Witness ==
    /\ wres # <<>>
    /\ wres[1].State = "closed"
    /\ netw[1].dial = "unreachable"

(***************************************************************************)
(* C11. Probe service identification. For an open port that is in          *)
(* commonPorts the result's service is the table's entry and the probe     *)
(* sets no read deadline and reads nothing from the connection; for an     *)
(* open port that is not in the table the probe reads once, and the        *)
(* service is custom-service when bytes were read before the deadline and  *)
(* unknown when the read timed out or failed; for a closed or filtered     *)
(* result the service is unknown, and nothing was read.                    *)
(***************************************************************************)
C11_ServiceIdentification ==
    \A i \in DOMAIN wres :
        wres[i] # NoResult =>
            /\ (wres[i].State = "open" /\ ports[i] \in DOMAIN commonPorts) =>
                   /\ wres[i].Service = commonPorts[ports[i]]
                   /\ netw[i].read = NoRead
            /\ (wres[i].State = "open" /\ ports[i] \notin DOMAIN commonPorts) =>
                   /\ netw[i].read \in ReadAnswers
                   /\ netw[i].read = "bytes" =>
                          wres[i].Service = "custom-service"
                   /\ netw[i].read \in {"timeout", "eof"} =>
                          wres[i].Service = "unknown"
            /\ wres[i].State \in {"closed", "filtered"} =>
                   /\ wres[i].Service = "unknown"
                   /\ netw[i].read = NoRead

\* A port outside the table answered with a banner.
C11_Witness ==
    /\ wres # <<>>
    /\ ports[1] = 8000
    /\ netw[1] = [dial |-> "connected", read |-> "bytes"]
    /\ wres[1] = [Port |-> 8000, State |-> "open", Service |-> "custom-service"]

\* A port of the table accepted the connection.
C11_WitnessTable ==
    /\ wres # <<>>
    /\ ports[1] = 80
    /\ wres[1] = [Port |-> 80, State |-> "open", Service |-> "HTTP"]

(***************************************************************************)
(* The terms of C12.                                                       *)
(***************************************************************************)
\* The entries of the list whose probe found the port open.
OpenEntries == {i \in DOMAIN wres : wres[i].State = "open"}

\* Entry i comes before entry j in the report that depends on the list and
\* on the probes' outcomes alone: by port, and by place in the list for
\* equal ports.
ReportBefore(i, j) ==
    \/ wres[i].Port < wres[j].Port
    \/ wres[i].Port = wres[j].Port /\ i < j

\* The report as a function of the list and of each entry's outcome.
ReportOfOutcomes ==
    LET n == Cardinality(OpenEntries)
        place == CHOOSE f \in [1..n -> OpenEntries] :
                     \A a, b \in 1..n : a < b => ReportBefore(f[a], f[b])
    IN  [k \in 1..n |-> wres[place[k]]]

(***************************************************************************)
(* C12. Deterministic aggregation. For a fixed list of ports and a fixed   *)
(* outcome of the probe of each entry, the report is the same in every     *)
(* run: the table printed is the one sequence the list and the outcomes    *)
(* determine, and the count is the length of the list, whatever the order  *)
(* in which the probes ran and completed.                                  *)
(***************************************************************************)
C12_DeterministicReport ==
    pcMain = "done" =>
        /\ shown = ReportOfOutcomes
        /\ scannedCount = Len(ports)

\* Two runs of the list 8000,8000 with the same outcomes, a banner read
\* from the first connection and none from the second, end in either of
\* these two reports.
C12_BannerFirst ==
    /\ pcMain = "done"
    /\ ports = <<8000, 8000>>
    /\ wres[1].Service = "custom-service" /\ wres[2].Service = "unknown"
    /\ shown = <<wres[1], wres[2]>>

C12_BannerLast ==
    /\ pcMain = "done"
    /\ ports = <<8000, 8000>>
    /\ wres[1].Service = "custom-service" /\ wres[2].Service = "unknown"
    /\ shown = <<wres[2], wres[1]>>

\* What does hold: when no port is listed twice, the report is the one the
\* list and the outcomes determine.
C12_DeterministicWhenDistinct ==
    (pcMain = "done" /\ \A i, j \in DOMAIN ports : i # j => ports[i] # ports[j])
        => /\ shown = ReportOfOutcomes
           /\ scannedCount = Len(ports)

(***************************************************************************)
(* C13. Fatal errors precede scanning. When the resolution of the host     *)
(* fails or parsePortRange returns an error, the run ends with exit status *)
(* 1 before the scan is set up: no ticket was acquired, no worker was      *)
(* launched, no result was produced, and nothing more happens. A run gets  *)
(* past the parse only when the host resolved and parsePortRange returned  *)
(* no error.                                                               *)
(***************************************************************************)
C13_FatalErrorsPrecedeScanning ==
    /\ parsed.err \notin {ErrNone, NotParsed.err} => pcMain = "exit1"
    /\ pcMain = "exit1" =>
           /\ parsed.err # ErrNone
           /\ ports = <<>>
           /\ ScanUnset
           /\ ~ENABLED Next
    /\ pcMain \notin {"resolve", "parse", "exit1"} => parsed.err = ErrNone

\* The run ended on the error of the range 200-100.
C13_Witness ==
    /\ pcMain = "exit1"
    /\ portRange = <<"2","0","0","-","1","0","0">>
    /\ parsed.err = ErrOrder

\* The run ended on the failure of the resolution, before the parse.
C13_WitnessResolution ==
    /\ pcMain = "exit1"
    /\ parsed = NotParsed

(***************************************************************************)
(* The terms of C14.                                                       *)
(***************************************************************************)
\* The workers that were launched and have not yet run their deferred
\* receive from sem.
TicketHolders == {i \in DOMAIN wpc : wpc[i] \in {"scan", "send", "release"}}

\* main is at its send on sem and the semaphore is full.
SubmissionBlocked == pcMain = "acquire" /\ ~SemHasRoom

\* Under FairSpec a submission that waits for a ticket gets one.
BlockedGetsTicket ==
    (threads >= 1 /\ pcMain = "acquire") ~> (pcMain = "launch")

(***************************************************************************)
(* C14. Guaranteed ticket release. Every worker launched under a ticket    *)
(* gives that ticket back exactly once, when it ends, whatever the state   *)
(* its probe found (open, closed or filtered): the tickets in the          *)
(* semaphore are those of the workers that have not ended, and the one     *)
(* main holds for the worker it is about to launch; a ticket leaves the    *)
(* semaphore only by the deferred receive of one worker, which receives    *)
(* never again. A submission blocked on the full semaphore is unblocked:   *)
(* while it is blocked some goroutine can take a step, and each step       *)
(* brings nearer the release by a worker that holds a ticket, so that a    *)
(* run that keeps taking steps, as the fairness of FairSpec has it, gives  *)
(* the submission its ticket. When wg.Wait has returned the semaphore      *)
(* holds no ticket.                                                        *)
(***************************************************************************)
C14_TicketRelease ==
    /\ [](semN = Cardinality(TicketHolders)
                 + (IF pcMain = "launch" THEN 1 ELSE 0))
    /\ [][\A i \in DOMAIN wpc :
             /\ (wpc[i] = "release" /\ wpc'[i] # "release") =>
                    (wpc'[i] = "wgdone" /\ semN' = semN - 1)
             /\ wpc[i] \in {"wgdone", "exited"} =>
                    wpc'[i] \in {"wgdone", "exited"}]_vars
    /\ [][semN' < semN =>
             \E i \in DOMAIN wpc : wpc[i] = "release" /\ wpc'[i] = "wgdone"]_vars
    /\ []((threads >= 1 /\ SubmissionBlocked) =>
             /\ TicketHolders # {}
             /\ ENABLED (\/ \E i \in DOMAIN wpc : Worker(i)
                         \/ CollectorHandle))
    /\ [][(threads >= 1 /\ SubmissionBlocked) =>
             /\ StepsLeft' < StepsLeft
             /\ pcMain' = pcMain \/ SemHasRoom]_vars
    /\ [](pcMain \in {"close", "recvDone", "sort", "display", "done"} =>
             semN = 0)

\* main waits for a ticket while a worker whose probe timed out is about
\* to give its ticket back.
C14_Witness ==
    /\ SubmissionBlocked
    /\ threads >= 1
    /\ \E i \in DOMAIN wpc : wpc[i] = "release" /\ wres[i].State = "filtered"

(***************************************************************************)
(* The terms of C15.                                                       *)
(***************************************************************************)
\* How many entries of the sequence rs are the result r.
CountOf(rs, r) == Cardinality({k \in DOMAIN rs : rs[k] = r})

\* The results handed off to the collector.
HandedOff == {i \in DOMAIN recvCount : recvCount[i] = 1}

(***************************************************************************)
(* C15. Aggregator filtering. The results slice never holds a result whose *)
(* state is closed or filtered, with verbose on or off. At completion it   *)
(* holds exactly the open results that were handed off, one entry for      *)
(* each. What the collector stores of a result depends on the result's     *)
(* state alone: the verbose flag changes what is printed (one line for     *)
(* each open or filtered result when it is on, none when it is off), never *)
(* the results slice.                                                      *)
(***************************************************************************)
C15_AggregatorFiltering ==
    /\ [](\A k \in DOMAIN results : results[k].State = "open")
    /\ [](Complete =>
             /\ \A i \in HandedOff :
                    wres[i].State = "open" =>
                        CountOf(results, wres[i]) =
                            Cardinality({j \in HandedOff : wres[j] = wres[i]})
             /\ \A k \in DOMAIN results :
                    \E i \in HandedOff : wres[i] = results[k]
             /\ Len(results) =
                    Cardinality({i \in HandedOff : wres[i].State = "open"}))
    /\ [][(cpc = "handle" /\ cpc' = "recv") =>
             /\ results' = IF cur.State = "open"
                           THEN Append(results, cur) ELSE results
             /\ Len(printed') - Len(printed) =
                    IF verbose /\ cur.State \in {"open", "filtered"}
                    THEN 1 ELSE 0]_vars
    /\ [](~verbose => printed = <<>>)

\* A verbose scan that printed a filtered port and an open one, and stored
\* the open one only.
C15_Witness ==
    /\ pcMain = "done"
    /\ verbose
    /\ Len(printed) = 2
    /\ Len(results) = 1
    /\ \E i \in DOMAIN wres : wres[i].State = "filtered"
    /\ \E i \in DOMAIN wres : wres[i].State = "closed"

(***************************************************************************)
(* The terms of C16.                                                       *)
(***************************************************************************)
\* The collector may still append to results: it has not left its loop.
CollectorOwns == cpc \in {"recv", "handle"}

\* main is at an access to results: the sort or the display.
MainAccesses == pcMain \in {"sort", "display"}

Sorted(rs) == \A a, b \in DOMAIN rs : a < b => rs[a].Port <= rs[b].Port

(***************************************************************************)
(* C16. Single owner of the results slice. An entry is added to results    *)
(* only by a step of the collector's loop, and no step of a worker changes *)
(* results. main is at its sort or at its display only after it received   *)
(* done: the collector has then ended, and it sent done only after         *)
(* resultsChan was closed and every result was received and handled. In no *)
(* state is main at an access to results while the collector is in its     *)
(* loop. The only other change of results is main's sort, and the display  *)
(* comes after it: it prints a sorted slice.                               *)
(***************************************************************************)
C16_SingleOwner ==
    /\ [][results' # results =>
             \/ /\ cpc = "handle" /\ cpc' = "recv"
                /\ results' = Append(results, cur)
                /\ pcMain' = pcMain /\ wpc' = wpc
             \/ /\ pcMain = "sort" /\ pcMain' = "display"
                /\ cpc = "end" /\ cpc' = "end" /\ wpc' = wpc
                /\ Len(results') = Len(results)]_vars
    /\ [](~(MainAccesses /\ CollectorOwns))
    /\ [](Complete => cpc = "end")
    /\ [](cpc \in {"sendDone", "end"} =>
             /\ closed
             /\ \A i \in DOMAIN recvCount : recvCount[i] = 1
             /\ Len(results) = Cardinality(OpenEntries))
    /\ [][pcMain' = "display" /\ pcMain # "display" => pcMain = "sort"]_vars
    /\ [](pcMain \in {"display", "done"} => Sorted(results))
    /\ [](pcMain = "done" => shown = results)

\* main waits for done, the channel closed, while the collector is still
\* at the append of the last result.
C16_Witness ==
    /\ pcMain = "recvDone"
    /\ closed
    /\ cpc = "handle"
    /\ cur.State = "open"
    /\ Len(ports) = 3

(***************************************************************************)
(* The terms of C17.                                                       *)
(***************************************************************************)
\* The probes that set the read deadline and read from the connection.
BannerReads == {i \in DOMAIN netw : netw[i].read # NoRead}

(***************************************************************************)
(* C17. For every -timeout value the caller can give, the deadline of the  *)
(* banner read that a probe sets on an open connection is shorter than the *)
(* connect timeout of its dial.                                            *)
(***************************************************************************)
C17_ReadDeadlineShorter ==
    \A i \in BannerReads : readTimeout < timeoutDuration

\* What does hold: the read deadline is the shorter one for the -timeout
\* values above 200 milliseconds, the default among them.
C17_ShorterAbove200 ==
    \A i \in BannerReads : timeout > readTimeout => readTimeout < timeoutDuration

\* A probe read a banner under a connect timeout of 100 milliseconds.
C17_ShortTimeoutRead ==
    /\ BannerReads # {}
    /\ timeout = 100

(***************************************************************************)
(* The terms of C18.                                                       *)
(***************************************************************************)
\* The workers that were launched and have not yet called wg.Done.
NotDone == {i \in DOMAIN wpc : wpc[i] \in {"scan", "send", "release", "wgdone"}}

\* main is past close(resultsChan).
PastClose == pcMain \in {"recvDone", "sort", "display", "done"}

(***************************************************************************)
(* C18. No send on a closed hand-off channel. resultsChan is closed once,  *)
(* by main's close, and never reopened; when it is closed every worker has *)
(* exited and its result was received, so that no worker is at or before   *)
(* its send on a closed channel. The WaitGroup counts the workers launched *)
(* that have not called wg.Done, and the one main has added and not yet    *)
(* launched; a worker calls wg.Done only after its send returned. The      *)
(* collector leaves its loop only when the channel is closed.              *)
(***************************************************************************)
C18_NoSendOnClosed ==
    /\ [](closed =>
             \A i \in DOMAIN wpc : wpc[i] = "exited" /\ recvCount[i] = 1)
    /\ [](closed <=> PastClose)
    /\ [][closed' # closed =>
             pcMain = "close" /\ pcMain' = "recvDone" /\ closed']_vars
    /\ [][PastClose => pcMain' # "close"]_vars
    /\ [](Scanning =>
             wgN = Cardinality(NotDone)
                   + (IF pcMain \in {"acquire", "launch"} THEN 1 ELSE 0))
    /\ [](\A i \in DOMAIN wpc :
             wpc[i] \in {"release", "wgdone", "exited"} => recvCount[i] = 1)
    /\ [][cpc = "recv" /\ cpc' # "recv" =>
             \/ cpc' = "handle" /\ ~closed
             \/ cpc' = "sendDone" /\ closed]_vars

\* The channel was closed after three hand-offs and the collector, back at
\* its receive, is about to leave its loop.
C18_Witness ==
    /\ closed
    /\ cpc = "recv"
    /\ Len(ports) = 3
    /\ \A i \in 1..3 : recvCount[i] = 1

(***************************************************************************)
(* The terms of C19.                                                       *)
(***************************************************************************)
\* The live workers: inside scanPort, blocked on the send of the result, or
\* past the send and at the progress line, before the deferred calls.
LiveWorkers == {i \in DOMAIN wpc : wpc[i] \in {"scan", "send", "release"}}

\* The ticket main acquired for the worker it is about to launch.
TicketInHand == IF pcMain = "launch" THEN 1 ELSE 0

C19_NotExitedWithinCeiling == Cardinality(NotDone) <= threads

(***************************************************************************)
(* C20. With a ceiling of 0 the scan never completes. The list of ports is *)
(* never empty when the scan starts; main stops at the first send on sem,  *)
(* a channel of capacity 0 that has no receiver, and no step is possible   *)
(* from there: no worker is ever launched, no probe is made, no result is  *)
(* collected, resultsChan is never closed and the report is never printed. *)
(***************************************************************************)
C20_ZeroCeilingNeverCompletes ==
    (threads = 0 /\ Scanning) =>
        /\ Len(ports) > 0
        /\ pcMain \in {"loop", "acquire"}
        /\ next = 1
        /\ semN = 0
        /\ \A i \in DOMAIN wpc :
               wpc[i] = "idle" /\ wres[i] = NoResult /\ recvCount[i] = 0
        /\ cpc = "recv"
        /\ results = <<>>
        /\ ~closed
        /\ scannedCount = -1
        /\ pcMain = "acquire" => ~ENABLED Next

\* main at its first send on sem, for a list of three ports.
C20_Witness ==
    /\ threads = 0
    /\ pcMain = "acquire"
    /\ wgN = 1
    /\ Len(ports) = 3

====
